---- MODULE Spec2Model ----
(***************************************************************************)
(* gravity_bridge.py: one run of main().  The run classifies the          *)
(* environment, runs at most one temperature probe (Windows/WSL, Linux    *)
(* sysfs, macOS) and prints one line.                                     *)
(*                                                                         *)
(* Text is a sequence of one-character strings.  A Python float is an     *)
(* exact decimal [kind |-> "fin", n, d] standing for n / 10^d, or the     *)
(* overflow value [kind |-> "inf"]; None is [kind |-> "none"].            *)
(***************************************************************************)
EXTENDS Integers, Sequences, FiniteSets

(***************************************************************************)
(* Bounds of the model.                                                    *)
(***************************************************************************)
\* entries listed in /sys/class/thermal
MaxZones == 2
\* device directories listed in /sys/class/hwmon
MaxHwmon == 1
\* files listed in one hwmon device directory
MaxFiles == 2

(***************************************************************************)
(* Text helpers (str methods used by the program).                        *)
(***************************************************************************)
DigitChars == {"0", "1", "2", "3", "4", "5", "6", "7", "8", "9"}

\* "sup2" stands for the one character SUPERSCRIPT TWO: str.isdigit() accepts
\* it, float() and the regex class \d do not
IsdigitChars == DigitChars \cup {"sup2"}

WhiteChars == {" ", "\n"}

DigitVal(c) ==
    CASE c = "0" -> 0 [] c = "1" -> 1 [] c = "2" -> 2 [] c = "3" -> 3
      [] c = "4" -> 4 [] c = "5" -> 5 [] c = "6" -> 6 [] c = "7" -> 7
      [] c = "8" -> 8 [] c = "9" -> 9

\* str.isdigit(): non-empty and every character a digit
isdigit(s) == Len(s) > 0 /\ \A i \in 1..Len(s) : s[i] \in IsdigitChars

\* str.strip(): leading and trailing whitespace removed
RECURSIVE LStrip(_)
LStrip(s) == IF s # <<>> /\ Head(s) \in WhiteChars THEN LStrip(Tail(s)) ELSE s

RECURSIVE RStrip(_)
RStrip(s) ==
    IF s # <<>> /\ s[Len(s)] \in WhiteChars
    THEN RStrip(SubSeq(s, 1, Len(s) - 1)) ELSE s

strip(s) == RStrip(LStrip(s))

\* s.startswith(p), s.endswith(p), p in s
startswith(s, p) == Len(p) <= Len(s) /\ SubSeq(s, 1, Len(p)) = p

endswith(s, p) == Len(p) <= Len(s) /\ SubSeq(s, Len(s) - Len(p) + 1, Len(s)) = p

contains(s, p) ==
    \E i \in 0..(Len(s) - Len(p)) : SubSeq(s, i + 1, i + Len(p)) = p

\* s.replace('.', '', 1): the first '.' removed
replaceFirstDot(s) ==
    IF \E i \in 1..Len(s) : s[i] = "."
    THEN LET i == CHOOSE k \in 1..Len(s) :
                      s[k] = "." /\ \A j \in 1..(k - 1) : s[j] # "."
         IN  SubSeq(s, 1, i - 1) \o SubSeq(s, i + 1, Len(s))
    ELSE s

\* re.findall(pattern, s)[0] for a pattern "one class, at least minLen times":
\* the leftmost maximal run of characters of the class that is long enough,
\* or <<>> when there is no match
\* length of the maximal run of class characters that starts at s[i]
RunLen(s, i, class) ==
    LET stops == {j \in i..Len(s) : s[j] \notin class}
    IN  IF stops = {} THEN Len(s) - i + 1
        ELSE (CHOOSE j \in stops : \A k \in stops : j <= k) - i

RECURSIVE FirstRunFrom(_, _, _, _)
FirstRunFrom(s, i, class, minLen) ==
    IF i > Len(s) THEN <<>>
    ELSE LET n == RunLen(s, i, class)
         IN  IF n >= minLen /\ n > 0 THEN SubSeq(s, i, i + n - 1)
             ELSE FirstRunFrom(s, i + (IF n > 0 THEN n ELSE 1), class, minLen)

FirstRun(s, class, minLen) == FirstRunFrom(s, 1, class, minLen)

(***************************************************************************)
(* Python floats as exact decimals.                                        *)
(***************************************************************************)
\* a decimal digit string with more integer digits than this is beyond the
\* largest finite double (about 1.8 * 10^308) and float() gives inf
FloatMaxDigits == 309

None == [kind |-> "none", n |-> 0, d |-> 0]

Inf == [kind |-> "inf", n |-> 0, d |-> 0]

Dec(n, d) == [kind |-> "fin", n |-> n, d |-> d]

RECURSIVE Pow10(_)
Pow10(k) == IF k = 0 THEN 1 ELSE 10 * Pow10(k - 1)

RECURSIVE ParseNat(_)
ParseNat(s) ==
    IF s = <<>> THEN 0
    ELSE 10 * ParseNat(SubSeq(s, 1, Len(s) - 1)) + DigitVal(s[Len(s)])

RECURSIVE StripZeros(_)
StripZeros(s) == IF s # <<>> /\ Head(s) = "0" THEN StripZeros(Tail(s)) ELSE s

\* float(s) for a text of digits and dots (the only texts the program passes
\* to float()): [ok |-> FALSE] is ValueError
float(s) ==
    LET dots   == {i \in 1..Len(s) : s[i] = "."}
        digits == {i \in 1..Len(s) : s[i] \in DigitChars}
    IN  IF Cardinality(dots) > 1 \/ digits = {} \/ dots \cup digits # 1..Len(s)
        THEN [ok |-> FALSE, val |-> None]
        ELSE LET p    == IF dots = {} THEN Len(s) + 1 ELSE CHOOSE i \in dots : TRUE
                 ip   == StripZeros(SubSeq(s, 1, p - 1))
                 fp   == SubSeq(s, p + 1, Len(s))
             IN  IF Len(ip) > FloatMaxDigits
                 THEN [ok |-> TRUE, val |-> Inf]
                 ELSE [ok |-> TRUE, val |-> Dec(ParseNat(ip \o fp), Len(fp))]

\* comparisons and arithmetic on floats (x is a float, the other side a
\* decimal literal given as n / 10^d)
Scaled(x, d) == x.n * Pow10(d - x.d)

FloatLt(x, y) ==
    IF x.kind = "inf" THEN FALSE
    ELSE IF y.kind = "inf" THEN TRUE
    ELSE LET d == IF x.d > y.d THEN x.d ELSE y.d IN Scaled(x, d) < Scaled(y, d)

FloatEq(x, y) ==
    IF x.kind # "fin" \/ y.kind # "fin" THEN x.kind = y.kind
    ELSE LET d == IF x.d > y.d THEN x.d ELSE y.d IN Scaled(x, d) = Scaled(y, d)

\* x / 10^k
FloatDivPow10(x, k) == IF x.kind = "inf" THEN Inf ELSE Dec(x.n, x.d + k)

\* x - y
FloatSub(x, y) ==
    IF x.kind = "inf" THEN Inf
    ELSE LET d == IF x.d > y.d THEN x.d ELSE y.d
         IN  Dec(Scaled(x, d) - Scaled(y, d), d)

\* str(n) for a natural number
RECURSIVE NatStr(_)
NatStr(n) ==
    IF n < 10 THEN <<CHOOSE c \in DigitChars : DigitVal(c) = n>>
    ELSE NatStr(n \div 10) \o NatStr(n % 10)

\* f"{x:.1f}": one fractional digit.  The decimal value is rounded half-even;
\* Python rounds the nearest binary double, so the last digit can differ when
\* the decimal value lies exactly half-way (30.05)
FormatOneDecimal(x) ==
    IF x.kind = "inf" THEN <<"i", "n", "f">>
    ELSE LET a    == IF x.n < 0 THEN 0 - x.n ELSE x.n
             m    == IF x.d = 0 THEN 1 ELSE Pow10(x.d - 1)
             q    == IF x.d = 0 THEN a * 10 ELSE a \div m
             r    == IF x.d = 0 THEN 0 ELSE a % m
             up   == 2 * r > m \/ (2 * r = m /\ q % 2 = 1)
             t    == IF up THEN q + 1 ELSE q
             sign == IF x.n < 0 THEN <<"-">> ELSE <<>>
         IN  sign \o NatStr(t \div 10) \o <<".">> \o NatStr(t % 10)

(***************************************************************************)
(* Environment: texts the outside world can hand to the program.           *)
(***************************************************************************)
NL == <<"\n">>

\* more digits than a finite double has
Huge == [k \in 1..(FloatMaxDigits + 1) |-> "9"]

\* kernel release strings (platform.release()); ok = FALSE: the call raises
R_generic == <<"6", ".", "1", "-", "g", "e", "n">>

R_Microsoft == <<"4", ".", "4", "-", "M", "i", "c", "r", "o", "s", "o", "f", "t">>

R_wsl2 == <<"5", ".", "1", "-", "W", "S", "L", "2">>

Releases ==
    {[ok |-> TRUE, text |-> t] : t \in {R_generic, R_Microsoft, R_wsl2}}
        \cup {[ok |-> FALSE, text |-> <<>>]}

OsFamilies == {"Linux", "Windows", "Darwin", "FreeBSD"}

\* the result of one child process: its stdout text, or a failure
Ok(t) == [kind |-> "ok", out |-> t]

Fail(k) == [kind |-> k, out |-> <<>>]

Failures == {Fail("notfound"), Fail("nonzero"), Fail("decode")}

\* integer outputs around every boundary of the unit windows
IntSamples ==
    {0, 1, 42, 149, 150, 151, 175, 199, 200, 201, 310, 399, 400, 401, 1000,
     2499, 2500, 2501, 3032, 3999, 4000, 4001}

TextSamples ==
    {<<>>, NL, <<".">>, <<"N", "/", "A">>, <<"5", "5", ".", "5">>,
     <<"5", ".">>, <<"1", ".", "2", ".", "3">>, <<"-", "5">>, <<"sup2">>,
     <<"0", "3", "1", "0">>, Huge}

QueryOutcomes ==
    Failures \cup {Ok(NatStr(v) \o NL) : v \in IntSamples}
             \cup {Ok(t) : t \in TextSamples}

(***************************************************************************)
(* is_wsl and run_command.                                                 *)
(***************************************************************************)
lower(s) ==
    [k \in 1..Len(s) |->
        CASE s[k] = "M" -> "m" [] s[k] = "W" -> "w" [] s[k] = "S" -> "s"
          [] s[k] = "L" -> "l" [] OTHER -> s[k]]

is_wsl(rel) ==
    IF ~rel.ok THEN FALSE
    ELSE LET release == lower(rel.text)
         IN  contains(release, <<"m", "i", "c", "r", "o", "s", "o", "f", "t">>)
                 \/ contains(release, <<"w", "s", "l">>)

NoText == [some |-> FALSE, text |-> <<>>]

Text(t) == [some |-> TRUE, text |-> t]

\* run_command's return value
run_command(outcome) ==
    IF outcome.kind = "ok" THEN Text(strip(outcome.out)) ELSE NoText

\* the lines run_command writes to stderr
run_command_trace(outcome, dbg) ==
    IF ~dbg THEN <<>>
    ELSE <<"DEBUG: Running command">> \o
         (CASE outcome.kind = "ok"      -> <<"DEBUG: Output">>
            [] outcome.kind = "nonzero" -> <<"DEBUG: Command failed">>
            [] OTHER                    -> <<"DEBUG: Execution error">>)

\* Python truthiness of an optional text
truthy(r) == r.some /\ r.text # <<>>

(***************************************************************************)
(* State of one run.                                                       *)
(***************************************************************************)
VARIABLES
    debug,        \* "--debug" in sys.argv
    release,      \* what platform.release() gives
    detected_os,  \* platform.system()
    fs_thermal,   \* the directory /sys/class/thermal
    fs_hwmon,     \* the directory /sys/class/hwmon
    pc,           \* position of the run
    temp,         \* main's temp (a probe's return value)
    stdout,       \* lines written to standard output
    stderr,       \* number of lines written to standard error
    probes,       \* probe functions called so far, in order
    calls,        \* child processes spawned so far, in order
    is_wsl_mode,  \* get_windows_temp's argument
    ps_exe,       \* resolved interpreter
    path_probe,   \* what the search-path probe of line 64 gave
    fs_paths,     \* the candidate paths that os.path.exists accepts
    i,            \* index of the next query strategy (0-based)
    raw,          \* output of the last child process
    zones,        \* get_linux_native_temp's zones
    zi,           \* index of the next zone (1-based)
    candidate,    \* get_linux_native_temp's candidate
    hi,           \* index of the current hwmon device (1-based)
    fi,           \* index of the next file of that device (1-based)
    source,       \* the return statement that produced temp
    accepted_by   \* the comparison that guarded that return statement

envVars == <<debug, release, detected_os, fs_thermal, fs_hwmon>>

mainVars == <<pc, temp, stdout, stderr, probes, source, accepted_by>>

winVars == <<calls, is_wsl_mode, ps_exe, path_probe, fs_paths, i, raw>>

linuxVars == <<zones, zi, candidate, hi, fi>>

vars == <<envVars, mainVars, winVars, linuxVars>>

(***************************************************************************)
(* main                                                                    *)
(***************************************************************************)
NA == <<"N", "/", "A">>

\* lines 249-257: argument and platform inspection, debug banner
MainStart ==
    /\ pc = "start"
    /\ stderr' = IF debug
                 THEN stderr + Len(<<"DEBUG: Detected OS">> \o
                                   (IF is_wsl(release)
                                    THEN <<"DEBUG: WSL Environment Detected">>
                                    ELSE <<"DEBUG: WSL NOT Detected">>))
                 ELSE stderr
    /\ pc' = "dispatch"
    /\ UNCHANGED <<envVars, temp, stdout, probes, source, accepted_by,
                   winVars, linuxVars>>

\* lines 261-262
DispatchWsl ==
    /\ pc = "dispatch"
    /\ is_wsl(release)
    /\ probes' = Append(probes, "get_windows_temp")
    /\ is_wsl_mode' = TRUE
    /\ pc' = "win_resolve"
    /\ UNCHANGED <<envVars, temp, stdout, stderr, source, accepted_by,
                   calls, ps_exe, path_probe, fs_paths, i, raw, linuxVars>>

\* lines 263-264
DispatchWindows ==
    /\ pc = "dispatch"
    /\ ~is_wsl(release)
    /\ detected_os = "Windows"
    /\ probes' = Append(probes, "get_windows_temp")
    /\ is_wsl_mode' = FALSE
    /\ pc' = "win_resolve"
    /\ UNCHANGED <<envVars, temp, stdout, stderr, source, accepted_by,
                   calls, ps_exe, path_probe, fs_paths, i, raw, linuxVars>>

\* DispatchLinux taken on the OS family alone, WSL or not
DispatchLinux_IgnoreWsl ==
    /\ pc = "dispatch"
    /\ detected_os = "Linux"
    /\ probes' = Append(probes, "get_linux_native_temp")
    /\ pc' = "linux_base"
    /\ UNCHANGED <<envVars, temp, stdout, stderr, source, accepted_by,
                   winVars, linuxVars>>

\* lines 265-266
DispatchLinux ==
    /\ pc = "dispatch"
    /\ ~is_wsl(release)
    /\ detected_os = "Linux"
    /\ probes' = Append(probes, "get_linux_native_temp")
    /\ pc' = "linux_base"
    /\ UNCHANGED <<envVars, temp, stdout, stderr, source, accepted_by,
                   winVars, linuxVars>>

\* lines 267-268
DispatchDarwin ==
    /\ pc = "dispatch"
    /\ ~is_wsl(release)
    /\ detected_os = "Darwin"
    /\ probes' = Append(probes, "get_macos_temp")
    /\ pc' = "macos"
    /\ UNCHANGED <<envVars, temp, stdout, stderr, source, accepted_by,
                   winVars, linuxVars>>

\* lines 259-268 with no branch taken: temp stays None
DispatchNone ==
    /\ pc = "dispatch"
    /\ ~is_wsl(release)
    /\ detected_os \notin {"Windows", "Linux", "Darwin"}
    /\ pc' = "report"
    /\ UNCHANGED <<envVars, temp, stdout, stderr, probes, source, accepted_by,
                   winVars, linuxVars>>

\* lines 270-275
Report ==
    /\ pc = "report"
    /\ IF temp # None
       THEN /\ stdout' = Append(stdout, FormatOneDecimal(temp))
            /\ stderr' = stderr
       ELSE /\ stderr' = IF debug
                         THEN stderr + Len(<<"DEBUG: No valid temperature found.">>)
                         ELSE stderr
            /\ stdout' = Append(stdout, NA)
    /\ pc' = "done"
    /\ UNCHANGED <<envVars, temp, probes, source, accepted_by, winVars, linuxVars>>

\* a probe returns v to main (line 262, 264, 266 or 268 assigns temp)
Return(v, src, test) ==
    /\ temp' = v
    /\ source' = src
    /\ accepted_by' = test
    /\ pc' = "report"

(***************************************************************************)
(* get_macos_temp                                                          *)
(***************************************************************************)
MacOutcomes ==
    Failures \cup
    {Ok(t) : t \in {<<>>, <<"4", "5", ".", "2">> \o NL,
                    <<"6", "1", ".", "8", "C">> \o NL,
                    <<"n", "o", " ", "S", "M", "C", ".">>,
                    <<"1", ".", "2", ".", "3">>, <<"n", "o", "n", "e">>, Huge}}

\* lines 240-246; float() of a match that is no number raises ValueError, which
\* nothing catches: the interpreter prints a traceback and exits with status 1
MacProbe ==
    /\ pc = "macos"
    /\ \E outcome \in MacOutcomes :
         LET cmd_out == run_command(outcome)
             match   == FirstRun(cmd_out.text, DigitChars \cup {"."}, 1)
         IN  /\ raw' = cmd_out
             /\ calls' = Append(calls, [kind |-> "osx-cpu-temp", exe |-> "osx-cpu-temp", idx |-> 0])
             /\ IF truthy(cmd_out) /\ match # <<>>
                THEN IF float(match).ok
                     THEN /\ Return(float(match).val, "macos", "none")
                          /\ stderr' = stderr
                     ELSE /\ pc' = "crashed"
                          /\ stderr' = stderr + Len(<<"Traceback: ValueError">>)
                          /\ UNCHANGED <<temp, source, accepted_by>>
                ELSE /\ Return(None, "none", "none")
                     /\ stderr' = stderr
    /\ UNCHANGED <<envVars, stdout, probes, is_wsl_mode, ps_exe, path_probe,
                   fs_paths, i, linuxVars>>

(***************************************************************************)
(* get_windows_temp                                                        *)
(***************************************************************************)
\* lines 49-53; first is the path's first character
candidates ==
    << [path |-> "powershell.exe", first |-> "p"],
       [path |-> "/mnt/c/Windows/System32/WindowsPowerShell/v1.0/powershell.exe",
        first |-> "/"],
       [path |-> "/mnt/c/Windows/System32/powershell.exe", first |-> "/"] >>

\* ResolveFrom with an existing absolute path preferred to the bare name
ResolveFrom_AbsoluteFirst(k, which, existing) ==
    IF candidates[2].path \in existing THEN candidates[2].path
    ELSE IF candidates[3].path \in existing THEN candidates[3].path
    ELSE "powershell.exe"

\* lines 56-68: which is the outcome of the search-path probe ("zero",
\* "nonzero" or "raise"), existing the set of paths os.path.exists accepts
RECURSIVE ResolveFrom(_, _, _)
ResolveFrom(k, which, existing) ==
    IF k > Len(candidates) THEN "powershell.exe"
    ELSE LET c == candidates[k]
         IN  IF c.first = "/"
             THEN IF c.path \in existing THEN c.path
                  ELSE ResolveFrom(k + 1, which, existing)
             ELSE IF which = "zero" THEN c.path
                  ELSE ResolveFrom(k + 1, which, existing)

\* lines 70-96: the four query strings, as their words
commands ==
    << <<"Get-WmiObject", "MSAcpi_ThermalZoneTemperature", "-Namespace", "root/wmi",
         "CurrentTemperature">>,
       <<"Get-CimInstance", "-Namespace", "root/wmi", "-ClassName",
         "MSAcpi_ThermalZoneTemperature", "CurrentTemperature">>,
       <<"Get-CimInstance", "-ClassName",
         "Win32_PerfFormattedData_Counters_ThermalZoneInformation", "Temperature">>,
       <<"Get-WmiObject", "-Namespace", "root/", "OpenHardwareMonitor", "-Class",
         "Sensor", "Temperature", "CPU", "Value">> >>

\* lines 43-68
WinResolve ==
    /\ pc = "win_resolve"
    /\ IF is_wsl_mode
       THEN \E which \in {"zero", "nonzero", "raise"} :
            \E existing \in SUBSET {candidates[2].path, candidates[3].path} :
                /\ ps_exe' = ResolveFrom(1, which, existing)
                /\ path_probe' = which
                /\ fs_paths' = existing
                /\ calls' = Append(calls, [kind |-> "which", exe |-> "which", idx |-> 0])
       ELSE /\ ps_exe' = "powershell.exe"
            /\ calls' = calls
            /\ UNCHANGED <<path_probe, fs_paths>>
    /\ i' = 0
    /\ pc' = "win_strategy"
    /\ UNCHANGED <<envVars, temp, stdout, stderr, probes, source, accepted_by,
                   is_wsl_mode, raw, linuxVars>>

C27315 == Dec(27315, 2)

\* Classify with the deci-Kelvin window left open above
Classify_NoUpperBound(val) ==
    IF FloatLt(Dec(2500, 0), val)
    THEN [unit |-> "(2500,4000)", celsius |-> FloatSub(FloatDivPow10(val, 1), C27315)]
    ELSE IF FloatLt(Dec(200, 0), val) /\ FloatLt(val, Dec(400, 0))
    THEN [unit |-> "(200,400)", celsius |-> FloatSub(val, C27315)]
    ELSE IF FloatLt(Dec(0, 0), val) /\ FloatLt(val, Dec(150, 0))
    THEN [unit |-> "(0,150)", celsius |-> val]
    ELSE [unit |-> "none", celsius |-> None]

\* Classify with the Kelvin window converted as if it were deci-Kelvin
Classify_KelvinDividedByTen(val) ==
    IF FloatLt(Dec(2500, 0), val) /\ FloatLt(val, Dec(4000, 0))
    THEN [unit |-> "(2500,4000)", celsius |-> FloatSub(FloatDivPow10(val, 1), C27315)]
    ELSE IF FloatLt(Dec(200, 0), val) /\ FloatLt(val, Dec(400, 0))
    THEN [unit |-> "(200,400)", celsius |-> FloatSub(FloatDivPow10(val, 1), C27315)]
    ELSE IF FloatLt(Dec(0, 0), val) /\ FloatLt(val, Dec(150, 0))
    THEN [unit |-> "(0,150)", celsius |-> val]
    ELSE [unit |-> "none", celsius |-> None]

\* Classify with the Celsius window closed above (<= 150)
Classify_InclusiveCelsius(val) ==
    IF FloatLt(Dec(2500, 0), val) /\ FloatLt(val, Dec(4000, 0))
    THEN [unit |-> "(2500,4000)", celsius |-> FloatSub(FloatDivPow10(val, 1), C27315)]
    ELSE IF FloatLt(Dec(200, 0), val) /\ FloatLt(val, Dec(400, 0))
    THEN [unit |-> "(200,400)", celsius |-> FloatSub(val, C27315)]
    ELSE IF FloatLt(Dec(0, 0), val) /\ ~FloatLt(Dec(150, 0), val)
    THEN [unit |-> "(0,150)", celsius |-> val]
    ELSE [unit |-> "none", celsius |-> None]

\* Classify with the Kelvin window opened at 100
Classify_WideKelvin(val) ==
    IF FloatLt(Dec(2500, 0), val) /\ FloatLt(val, Dec(4000, 0))
    THEN [unit |-> "(2500,4000)", celsius |-> FloatSub(FloatDivPow10(val, 1), C27315)]
    ELSE IF FloatLt(Dec(100, 0), val) /\ FloatLt(val, Dec(400, 0))
    THEN [unit |-> "(200,400)", celsius |-> FloatSub(val, C27315)]
    ELSE IF FloatLt(Dec(0, 0), val) /\ FloatLt(val, Dec(150, 0))
    THEN [unit |-> "(0,150)", celsius |-> val]
    ELSE [unit |-> "none", celsius |-> None]

\* lines 120-138: the unit inferred from the magnitude, and the Celsius value
Classify(val) ==
    IF FloatLt(Dec(2500, 0), val) /\ FloatLt(val, Dec(4000, 0))
    THEN [unit |-> "(2500,4000)", celsius |-> FloatSub(FloatDivPow10(val, 1), C27315)]
    ELSE IF FloatLt(Dec(200, 0), val) /\ FloatLt(val, Dec(400, 0))
    THEN [unit |-> "(200,400)", celsius |-> FloatSub(val, C27315)]
    ELSE IF FloatLt(Dec(0, 0), val) /\ FloatLt(val, Dec(150, 0))
    THEN [unit |-> "(0,150)", celsius |-> val]
    ELSE [unit |-> "none", celsius |-> None]

\* IsOhm with the test on the query dropped
IsOhm_AnyQuery(ps_cmd) == TRUE

\* line 109, first conjunct
IsOhm(ps_cmd) == contains(ps_cmd, <<"OpenHardwareMonitor">>)

\* StrategyResult with an exception of the conversion ending the probe with
\* no value instead of being caught inside the loop
StrategyResult_ExceptEndsLoop(ps_cmd, r) ==
    LET next == [kind |-> "next", val |-> None, unit |-> "none"]
        exc  == [kind |-> "return", val |-> None, unit |-> "none"]
    IN  IF ~truthy(r) THEN next
        ELSE IF IsOhm(ps_cmd) /\ isdigit(replaceFirstDot(r.text))
        THEN IF float(r.text).ok
             THEN [kind |-> "return", val |-> float(r.text).val, unit |-> "ohm"]
             ELSE exc
        ELSE IF isdigit(r.text)
        THEN IF float(r.text).ok
             THEN LET cl == Classify(float(r.text).val)
                  IN  IF cl.unit # "none"
                      THEN [kind |-> "return", val |-> cl.celsius, unit |-> cl.unit]
                      ELSE next
             ELSE exc
        ELSE next

\* lines 107-141 for one strategy's output r: "return" a value, go on to the
\* "next" strategy, or raise ("except", caught at line 142)
StrategyResult(ps_cmd, r) ==
    LET next == [kind |-> "next", val |-> None, unit |-> "none"]
        exc  == [kind |-> "except", val |-> None, unit |-> "none"]
    IN  IF ~truthy(r) THEN next
        ELSE IF IsOhm(ps_cmd) /\ isdigit(replaceFirstDot(r.text))
        THEN IF float(r.text).ok
             THEN [kind |-> "return", val |-> float(r.text).val, unit |-> "ohm"]
             ELSE exc
        ELSE IF isdigit(r.text)
        THEN IF float(r.text).ok
             THEN LET cl == Classify(float(r.text).val)
                  IN  IF cl.unit # "none"
                      THEN [kind |-> "return", val |-> cl.celsius, unit |-> cl.unit]
                      ELSE next
             ELSE exc
        ELSE next

\* the lines one strategy writes to stderr besides run_command's
StrategyTrace(res, r, dbg) ==
    IF ~dbg THEN <<>>
    ELSE CASE res.kind = "except" -> <<"DEBUG: Strategy Exception">>
           [] res.kind = "return" /\ res.unit # "ohm" -> <<"DEBUG: Success with Strategy">>
           [] res.kind = "next" /\ truthy(r) /\ isdigit(r.text)
                -> <<"DEBUG: Value out of reasonable range.">>
           [] OTHER -> <<>>

\* lines 98-145: one iteration of the strategy loop
WinStrategy ==
    /\ pc = "win_strategy"
    /\ i < Len(commands)
    /\ \E outcome \in QueryOutcomes :
         LET ps_cmd == commands[i + 1]
             r      == run_command(outcome)
             res    == StrategyResult(ps_cmd, r)
         IN  /\ raw' = r
             /\ calls' = Append(calls, [kind |-> "strategy", exe |-> ps_exe, idx |-> i + 1])
             /\ stderr' = stderr + Len(
                    (IF debug THEN <<"DEBUG: (Win/WSL) Attempting Strategy">> ELSE <<>>)
                    \o run_command_trace(outcome, debug)
                    \o StrategyTrace(res, r, debug))
             /\ IF res.kind = "return"
                THEN /\ Return(res.val, IF res.unit = "ohm" THEN "ohm" ELSE "strategy",
                               IF res.unit = "ohm" THEN "none" ELSE res.unit)
                     /\ i' = i
                ELSE /\ i' = i + 1
                     /\ pc' = IF i + 1 < Len(commands) THEN "win_strategy" ELSE "win_wmic"
                     /\ UNCHANGED <<temp, source, accepted_by>>
    /\ UNCHANGED <<envVars, stdout, probes, is_wsl_mode, ps_exe, path_probe,
                   fs_paths, linuxVars>>

WmicOutcomes ==
    Failures \cup
    {Ok(t) : t \in
        {<<>>,
         <<"T", "e", "m", "p", " ", "\n", "3", "0", "3", "2", " ", "\n">>,
         <<"T", "e", "m", "p", "\n">>,
         <<"1", "2", " ", "3", "0", "3", "2">>,
         <<"5", "0", "0", "0", " ", "3", "0", "3", "2">>,
         <<"0", "3", "0", "3", "2">>,
         <<"3", "1", "0">>,
         <<"2", "5", "0", "0">>, <<"2", "5", "0", "1">>,
         <<"3", "9", "9", "9">>, <<"4", "0", "0", "0">>,
         Huge}}

\* WmicResult taking the first run of digits of any length
WmicResult_AnyLength(r) ==
    LET m == FirstRun(r.text, DigitChars, 1)
    IN  IF truthy(r) /\ m # <<>>
        THEN LET kelvin_deci == float(m).val
             IN  IF FloatLt(Dec(2500, 0), kelvin_deci) /\ FloatLt(kelvin_deci, Dec(4000, 0))
                 THEN FloatSub(FloatDivPow10(kelvin_deci, 1), C27315)
                 ELSE None
        ELSE None

\* lines 156-162 for the tool's output r
WmicResult(r) ==
    LET m == FirstRun(r.text, DigitChars, 4)
    IN  IF truthy(r) /\ m # <<>>
        THEN LET kelvin_deci == float(m).val
             IN  IF FloatLt(Dec(2500, 0), kelvin_deci) /\ FloatLt(kelvin_deci, Dec(4000, 0))
                 THEN FloatSub(FloatDivPow10(kelvin_deci, 1), C27315)
                 ELSE None
        ELSE None

\* WinWmic open to a run whose strategy loop has not ended
WinWmic_BeforeLoopEnds ==
    /\ pc \in {"win_strategy", "win_wmic"}
    /\ \E wmic_exists \in BOOLEAN : \E outcome \in WmicOutcomes :
         LET wmic_cmd == IF is_wsl_mode /\ wmic_exists
                         THEN "/mnt/c/Windows/System32/wbem/wmic.exe"
                         ELSE "wmic.exe"
             r        == run_command(outcome)
             v        == WmicResult(r)
         IN  /\ raw' = r
             /\ calls' = Append(calls, [kind |-> "wmic", exe |-> wmic_cmd, idx |-> 0])
             /\ stderr' = stderr + Len(
                    (IF debug THEN <<"DEBUG: Attempting WMIC specific fallback...">>
                     ELSE <<>>)
                    \o run_command_trace(outcome, debug))
             /\ IF v # None
                THEN Return(v, "wmic", "(2500,4000)")
                ELSE Return(None, "none", "none")
    /\ UNCHANGED <<envVars, stdout, probes, is_wsl_mode, ps_exe, path_probe,
                   fs_paths, i, linuxVars>>

\* lines 147-166
WinWmic ==
    /\ pc = "win_wmic"
    /\ \E wmic_exists \in BOOLEAN : \E outcome \in WmicOutcomes :
         LET wmic_cmd == IF is_wsl_mode /\ wmic_exists
                         THEN "/mnt/c/Windows/System32/wbem/wmic.exe"
                         ELSE "wmic.exe"
             r        == run_command(outcome)
             v        == WmicResult(r)
         IN  /\ raw' = r
             /\ calls' = Append(calls, [kind |-> "wmic", exe |-> wmic_cmd, idx |-> 0])
             /\ stderr' = stderr + Len(
                    (IF debug THEN <<"DEBUG: Attempting WMIC specific fallback...">>
                     ELSE <<>>)
                    \o run_command_trace(outcome, debug))
             /\ IF v # None
                THEN Return(v, "wmic", "(2500,4000)")
                ELSE Return(None, "none", "none")
    /\ UNCHANGED <<envVars, stdout, probes, is_wsl_mode, ps_exe, path_probe,
                   fs_paths, i, linuxVars>>

(***************************************************************************)
(* get_linux_native_temp                                                   *)
(***************************************************************************)
\* a file: missing, or present and failing to open/read (OSError), or present
\* with a content
Missing == [exists |-> FALSE, readable |-> FALSE, text |-> <<>>]

Unreadable == [exists |-> TRUE, readable |-> FALSE, text |-> <<>>]

File(t) == [exists |-> TRUE, readable |-> TRUE, text |-> t]

S_thermal_zone == <<"t", "h", "e", "r", "m", "a", "l", "_", "z", "o", "n", "e">>

S_x86_pkg_temp == <<"x", "8", "6", "_", "p", "k", "g", "_", "t", "e", "m", "p">>

S_coretemp == <<"c", "o", "r", "e", "t", "e", "m", "p">>

S_temp == <<"t", "e", "m", "p">>

S_input == <<"_", "i", "n", "p", "u", "t">>

\* line 179: the filter on the listing
IsZoneName(f) == startswith(f, S_thermal_zone)

\* line 192
IsPreferred(z_type) == contains(z_type, S_x86_pkg_temp) \/ contains(z_type, S_coretemp)

\* line 205
IsPositive(val) == FloatLt(Dec(0, 0), val)

\* lines 183-206: one zone z with the candidate cand found so far.  "return" a
\* value, "continue" with a candidate, or raise ("except", caught at line 211)
ZoneStep(z, cand) ==
    LET exc    == [kind |-> "except", val |-> None, candidate |-> cand]
        go(c)  == [kind |-> "continue", val |-> None, candidate |-> c]
        t_str  == strip(z.temp.text)
        f      == float(t_str)
        \* lines 200-206
        keep   == IF cand # None THEN go(cand)
                  ELSE IF ~z.temp.readable THEN exc
                  ELSE IF ~isdigit(t_str) THEN go(cand)
                  ELSE IF ~f.ok THEN exc
                  ELSE IF IsPositive(f.val) THEN go(FloatDivPow10(f.val, 3))
                  ELSE go(cand)
    IN  IF ~(z.type.exists /\ z.temp.exists) THEN go(cand)
        ELSE IF ~z.type.readable THEN exc
        ELSE IF IsPreferred(strip(z.type.text))
        THEN IF ~z.temp.readable THEN exc
             ELSE IF isdigit(t_str)
             THEN IF f.ok
                  THEN [kind |-> "return", val |-> FloatDivPow10(f.val, 3),
                        candidate |-> cand]
                  ELSE exc
             ELSE keep
        ELSE keep

\* lines 173-175
LinuxBase ==
    /\ pc = "linux_base"
    /\ IF fs_thermal.kind = "missing"
       THEN Return(None, "none", "none")
       ELSE /\ pc' = "linux_list"
            /\ UNCHANGED <<temp, source, accepted_by>>
    /\ UNCHANGED <<envVars, stdout, stderr, probes, winVars, linuxVars>>

\* lines 178-180; os.listdir raising is caught at line 211
LinuxList ==
    /\ pc = "linux_list"
    /\ IF fs_thermal.kind = "dir"
       THEN /\ zones' = SelectSeq(fs_thermal.entries, LAMBDA e : IsZoneName(e.name))
            /\ candidate' = None
            /\ zi' = 1
            /\ pc' = "linux_zone"
       ELSE /\ pc' = "hwmon_base"
            /\ UNCHANGED <<zones, candidate, zi>>
    /\ UNCHANGED <<envVars, temp, stdout, stderr, probes, source, accepted_by,
                   winVars, hi, fi>>

\* lines 182-206: one iteration of the zone loop
LinuxZone ==
    /\ pc = "linux_zone"
    /\ zi <= Len(zones)
    /\ LET res == ZoneStep(zones[zi], candidate)
       IN  CASE res.kind = "return" ->
                  /\ Return(res.val, "preferred_zone", "none")
                  /\ UNCHANGED <<zi, candidate>>
             [] res.kind = "except" ->
                  /\ pc' = "hwmon_base"
                  /\ UNCHANGED <<temp, source, accepted_by, zi, candidate>>
             [] OTHER ->
                  /\ candidate' = res.candidate
                  /\ zi' = zi + 1
                  /\ UNCHANGED <<pc, temp, source, accepted_by>>
    /\ UNCHANGED <<envVars, stdout, stderr, probes, winVars, zones, hi, fi>>

\* lines 208-209, after the loop
LinuxAfterZones ==
    /\ pc = "linux_zone"
    /\ zi > Len(zones)
    /\ IF candidate # None
       THEN Return(candidate, "candidate", ">0")
       ELSE /\ pc' = "hwmon_base"
            /\ UNCHANGED <<temp, source, accepted_by>>
    /\ UNCHANGED <<envVars, stdout, stderr, probes, winVars, linuxVars>>

\* line 222
IsTempInput(f) == startswith(f, S_temp) /\ endswith(f, S_input)

\* line 229
HwmonSane(temp_c) == FloatLt(Dec(10, 0), temp_c) /\ FloatLt(temp_c, Dec(150, 0))

\* lines 222-230 for one directory entry e: "return" a value, "continue" with
\* the next entry, or raise ("except", caught at line 231)
HwmonFileStep(e) ==
    LET t_str  == strip(e.file.text)
        f      == float(t_str)
        temp_c == FloatDivPow10(f.val, 3)
    IN  IF ~IsTempInput(e.name) THEN [kind |-> "continue", val |-> None]
        ELSE IF ~(e.file.exists /\ e.file.readable) THEN [kind |-> "except", val |-> None]
        ELSE IF ~isdigit(t_str) THEN [kind |-> "continue", val |-> None]
        ELSE IF ~f.ok THEN [kind |-> "except", val |-> None]
        ELSE IF HwmonSane(temp_c) THEN [kind |-> "return", val |-> temp_c]
        ELSE [kind |-> "continue", val |-> None]

\* lines 215-218; a missing hwmon directory, or one that cannot be listed
\* (caught at line 231), ends the probe at line 234
HwmonBase ==
    /\ pc = "hwmon_base"
    /\ IF fs_hwmon.kind = "dir"
       THEN /\ hi' = 1
            /\ pc' = "hwmon_dev"
            /\ UNCHANGED <<temp, source, accepted_by>>
       ELSE /\ Return(None, "none", "none")
            /\ hi' = hi
    /\ UNCHANGED <<envVars, stdout, stderr, probes, winVars, zones, zi, candidate, fi>>

\* lines 218-221: the next device directory is listed
HwmonDev ==
    /\ pc = "hwmon_dev"
    /\ IF hi <= Len(fs_hwmon.devices) /\ fs_hwmon.devices[hi].listable
       THEN /\ fi' = 1
            /\ pc' = "hwmon_file"
            /\ UNCHANGED <<temp, source, accepted_by>>
       ELSE /\ Return(None, "none", "none")
            /\ fi' = fi
    /\ UNCHANGED <<envVars, stdout, stderr, probes, winVars, zones, zi, candidate, hi>>

\* lines 221-230: one iteration of the inner loop
HwmonFile ==
    /\ pc = "hwmon_file"
    /\ LET files == fs_hwmon.devices[hi].files
       IN  IF fi > Len(files)
           THEN /\ hi' = hi + 1
                /\ pc' = "hwmon_dev"
                /\ UNCHANGED <<temp, source, accepted_by, fi>>
           ELSE LET res == HwmonFileStep(files[fi])
                IN  CASE res.kind = "return" ->
                           /\ Return(res.val, "hwmon", "(10,150)")
                           /\ UNCHANGED <<hi, fi>>
                      [] res.kind = "except" ->
                           /\ Return(None, "none", "none")
                           /\ UNCHANGED <<hi, fi>>
                      [] OTHER ->
                           /\ fi' = fi + 1
                           /\ UNCHANGED <<pc, temp, source, accepted_by, hi>>
    /\ UNCHANGED <<envVars, stdout, stderr, probes, winVars, zones, zi, candidate>>

(***************************************************************************)
(* Filesystems the run can meet, and the specifications.                   *)
(***************************************************************************)
SeqsUpTo(S, n) == UNION {[1..k -> S] : k \in 0..n}

\* directory entries get distinct names: the base name and the position
Named(kinds) ==
    [k \in 1..Len(kinds) |-> [kinds[k] EXCEPT !.name = @ \o NatStr(k - 1)]]

Zone(name, type_file, temp_file) == [name |-> name, type |-> type_file, temp |-> temp_file]

T_coretemp == File(S_coretemp \o NL)

T_pkg == File(S_x86_pkg_temp \o NL)

T_iwlwifi == File(<<"i", "w", "l", "w", "i", "f", "i", "_", "1">> \o NL)

T_acpitz == File(<<"a", "c", "p", "i", "t", "z">> \o NL)

Milli(v) == File(NatStr(v) \o NL)

Negative == File(<<"-", "5", "0", "0", "0">> \o NL)

ZoneKindsSmall ==
    { Zone(S_thermal_zone, T_coretemp, Milli(45000)),
      Zone(S_thermal_zone, T_iwlwifi, Milli(35000)),
      Zone(S_thermal_zone, T_iwlwifi, Unreadable),
      Zone(S_thermal_zone, T_coretemp, File(Huge \o NL)) }

ZoneKindsRich ==
    { Zone(S_thermal_zone, T_coretemp, Milli(45000)),
      Zone(S_thermal_zone, T_pkg, Milli(55000)),
      Zone(S_thermal_zone, T_coretemp, Negative),
      Zone(S_thermal_zone, T_coretemp, Unreadable),
      Zone(S_thermal_zone, T_iwlwifi, Milli(35000)),
      Zone(S_thermal_zone, T_acpitz, Milli(25000)),
      Zone(S_thermal_zone, T_iwlwifi, Milli(0)),
      Zone(S_thermal_zone, T_iwlwifi, Negative),
      Zone(S_thermal_zone, T_iwlwifi, Unreadable),
      Zone(S_thermal_zone, T_iwlwifi, Missing),
      Zone(S_thermal_zone, Unreadable, Milli(35000)),
      Zone(S_thermal_zone, Missing, Milli(35000)),
      Zone(<<"c", "o", "o", "l", "i", "n", "g", "_", "d", "e", "v", "i", "c", "e">>,
           File(<<"P", "r", "o", "c", "e", "s", "s", "o", "r">> \o NL), Missing) }

ThermalMissing == [kind |-> "missing", entries |-> <<>>]

ThermalUnlistable == [kind |-> "unlistable", entries |-> <<>>]

ThermalDirs(kinds) ==
    {[kind |-> "dir", entries |-> Named(ks)] : ks \in SeqsUpTo(kinds, MaxZones)}

HwFile(name, file) == [name |-> name, file |-> file]

HwKindsRich ==
    { HwFile(S_temp, Milli(10000)), HwFile(S_temp, Milli(150000)),
      HwFile(S_temp, Milli(50000)), HwFile(S_temp, Milli(60000)),
      HwFile(S_temp, Unreadable),
      HwFile(<<"f", "a", "n">>, Milli(70000)) }

HwKindsSmall == { HwFile(S_temp, Milli(50000)), HwFile(S_temp, Unreadable) }

\* hwmon file names: the base name, the position, "_input"
NamedInputs(kinds) ==
    [k \in 1..Len(kinds) |-> [kinds[k] EXCEPT !.name = @ \o NatStr(k) \o S_input]]

HwDevices(kinds, maxFiles) ==
    {[listable |-> TRUE, files |-> NamedInputs(ks)] : ks \in SeqsUpTo(kinds, maxFiles)}
        \cup {[listable |-> FALSE, files |-> <<>>]}

HwmonMissing == [kind |-> "missing", devices |-> <<>>]

HwmonUnlistable == [kind |-> "unlistable", devices |-> <<>>]

HwmonDirs(kinds, maxDevs, maxFiles) ==
    {[kind |-> "dir", devices |-> ds] : ds \in SeqsUpTo(HwDevices(kinds, maxFiles), maxDevs)}

HwmonSmall == {HwmonMissing, HwmonUnlistable} \cup HwmonDirs(HwKindsSmall, 1, 1)

\* the run's own variables before main starts
InitRun ==
    /\ pc = "start"
    /\ temp = None
    /\ stdout = <<>>
    /\ stderr = 0
    /\ probes = <<>>
    /\ calls = <<>>
    /\ is_wsl_mode = FALSE
    /\ ps_exe = "unresolved"
    /\ path_probe = "unprobed"
    /\ fs_paths = {}
    /\ i = 0
    /\ raw = NoText
    /\ zones = <<>>
    /\ zi = 1
    /\ candidate = None
    /\ hi = 1
    /\ fi = 1
    /\ source = "none"
    /\ accepted_by = "none"

\* every platform; the filesystem matters on native Linux only
Init ==
    /\ debug \in BOOLEAN
    /\ release \in Releases
    /\ detected_os \in OsFamilies
    /\ IF detected_os = "Linux" /\ ~is_wsl(release)
       THEN /\ fs_thermal \in {ThermalMissing, ThermalUnlistable}
                                  \cup ThermalDirs(ZoneKindsSmall)
            /\ fs_hwmon \in HwmonSmall
       ELSE /\ fs_thermal = ThermalMissing
            /\ fs_hwmon = HwmonMissing
    /\ InitRun

Next ==
    \/ MainStart
    \/ DispatchWsl
    \/ DispatchWindows
    \/ DispatchLinux
    \/ DispatchDarwin
    \/ DispatchNone
    \/ WinResolve
    \/ WinStrategy
    \/ WinWmic
    \/ LinuxBase
    \/ LinuxList
    \/ LinuxZone
    \/ LinuxAfterZones
    \/ HwmonBase
    \/ HwmonDev
    \/ HwmonFile
    \/ MacProbe
    \/ Report

Spec == Init /\ [][Next]_vars

\* the interpreter always executes its next statement, and every child process
\* eventually exits or fails
SpecFair == Init /\ [][Next]_vars /\ WF_vars(Next)

\* native Linux with many thermal-zone directories, or with an empty one and
\* many hwmon trees
InitLinux ==
    /\ debug \in BOOLEAN
    /\ release = [ok |-> TRUE, text |-> R_generic]
    /\ detected_os = "Linux"
    /\ \/ /\ fs_thermal \in {ThermalMissing, ThermalUnlistable}
                                \cup ThermalDirs(ZoneKindsRich)
          /\ fs_hwmon \in HwmonSmall
       \/ /\ fs_thermal = [kind |-> "dir", entries |-> <<>>]
          /\ fs_hwmon \in HwmonDirs(HwKindsRich, MaxHwmon, MaxFiles)
    /\ InitRun

NextLinux ==
    \/ MainStart
    \/ DispatchLinux
    \/ LinuxBase
    \/ LinuxList
    \/ LinuxZone
    \/ LinuxAfterZones
    \/ HwmonBase
    \/ HwmonDev
    \/ HwmonFile
    \/ Report

SpecLinux == InitLinux /\ [][NextLinux]_vars

(***************************************************************************)
(* Properties.                                                             *)
(***************************************************************************)
Finished == pc = "done"

Returned == pc \in {"report", "done"}

LastCall == calls[Len(calls)]

\* an optional minus sign, at least one digit, a point, exactly one digit
IsOneDecimal(line) ==
    LET body == IF line # <<>> /\ Head(line) = "-" THEN Tail(line) ELSE line
        n    == Len(body)
    IN  /\ n >= 3
        /\ body[n - 1] = "."
        /\ body[n] \in DigitChars
        /\ \A k \in 1..(n - 2) : body[k] \in DigitChars

IsDebugLine(line) == startswith(line, <<"D", "E", "B", "U", "G">>)

\* C1: a completed run has written exactly one line to standard output, a
\* Celsius value with exactly one fractional digit or N/A, and no debug line
\* is ever written to standard output.
C1_StdoutContract ==
    /\ \A k \in 1..Len(stdout) : ~IsDebugLine(stdout[k])
    /\ Finished =>
         /\ Len(stdout) = 1
         /\ stdout[1] = NA \/ IsOneDecimal(stdout[1])

\* C2: the run never raises: no probe ends in an uncaught exception, and the
\* run ends by printing.
C2_NeverRaises ==
    /\ pc # "crashed"
    /\ Finished => Len(stdout) = 1

RangeTests == {"(2500,4000)", "(200,400)", "(0,150)", "(10,150)"}

\* C3 as stated: every reading a probe returns was accepted by a
\* plausibility-range test on its path.
C3_EveryReadingRangeTested == temp # None => accepted_by \in RangeTests

Between(low, x, high) == FloatLt(low, x) /\ FloatLt(x, high)

\* C3 amended: a reading from the plain-integer classification of a query
\* strategy, from the wmic fallback or from the hwmon fallback passed the range
\* test of its path and lies in the Celsius image of that window; the
\* thermal-zone fallback candidate passed a positivity test only; a reading
\* from a preferred thermal zone, from the open-hardware-monitor strategy or
\* from the macOS probe passed no magnitude test.
C3_RangeTestedPaths ==
    temp # None =>
        CASE source = "strategy" ->
                 CASE accepted_by = "(2500,4000)" ->
                          Between(Dec(-2315, 2), temp, Dec(12685, 2))
                   [] accepted_by = "(200,400)" ->
                          Between(Dec(-7315, 2), temp, Dec(12685, 2))
                   [] accepted_by = "(0,150)" ->
                          Between(Dec(0, 0), temp, Dec(150, 0))
                   [] OTHER -> FALSE
          [] source = "wmic" ->
                 /\ accepted_by = "(2500,4000)"
                 /\ Between(Dec(-2315, 2), temp, Dec(12685, 2))
          [] source = "hwmon" ->
                 /\ accepted_by = "(10,150)"
                 /\ Between(Dec(10, 0), temp, Dec(150, 0))
          [] source = "candidate" ->
                 /\ accepted_by = ">0"
                 /\ FloatLt(Dec(0, 0), temp)
          [] source \in {"preferred_zone", "ohm", "macos"} -> accepted_by = "none"
          [] OTHER -> FALSE

C3_Witness ==
    /\ Finished
    /\ source = "strategy"
    /\ accepted_by = "(200,400)"
    /\ FloatEq(temp, Dec(3685, 2))

\* C4: at most one probe is called in a run, and it is the one the
\* classification selects: the Windows/WSL probe in WSL mode whenever WSL is
\* detected, otherwise the OS family's probe; an unsupported family calls no
\* probe and the output is exactly N/A.
C4_OneProbe ==
    /\ Len(probes) <= 1
    /\ pc \notin {"start", "dispatch"} =>
         probes = (CASE is_wsl(release)          -> <<"get_windows_temp">>
                     [] detected_os = "Windows" -> <<"get_windows_temp">>
                     [] detected_os = "Linux"   -> <<"get_linux_native_temp">>
                     [] detected_os = "Darwin"  -> <<"get_macos_temp">>
                     [] OTHER                   -> <<>>)
    /\ probes = <<"get_windows_temp">> => is_wsl_mode = is_wsl(release)
    /\ Finished /\ probes = <<>> => stdout = <<NA>>

C4_Witness ==
    /\ Finished
    /\ is_wsl(release)
    /\ detected_os = "Linux"
    /\ probes = <<"get_windows_temp">>
    /\ is_wsl_mode

(***************************************************************************)
(* Linux probe: what the filesystem holds, read off fs_thermal and         *)
(* fs_hwmon without running the probe.                                     *)
(***************************************************************************)
LinuxRan == probes = <<"get_linux_native_temp">>

\* the thermal zones in enumeration order
ThermalZones == SelectSeq(fs_thermal.entries, LAMBDA e : IsZoneName(e.name))

\* a file whose content, whitespace aside, is one or more decimal digits
PurelyNumeric(file) ==
    /\ file.exists
    /\ file.readable
    /\ strip(file.text) # <<>>
    /\ \A k \in 1..Len(strip(file.text)) : strip(file.text)[k] \in DigitChars

\* the raw value of a purely numeric file, divided by 1000
MilliValue(file) ==
    IF Len(StripZeros(strip(file.text))) > FloatMaxDigits THEN Inf
    ELSE Dec(ParseNat(strip(file.text)), 3)

TypeKnown(z) == z.type.exists /\ z.type.readable

PreferredType(z) ==
    /\ TypeKnown(z)
    /\ \/ contains(z.type.text, S_x86_pkg_temp)
       \/ contains(z.type.text, S_coretemp)

PreferredNumericZones ==
    {k \in 1..Len(ThermalZones) :
        PreferredType(ThermalZones[k]) /\ PurelyNumeric(ThermalZones[k].temp)}

\* C5: when the thermal zones include a preferred-type zone with a purely
\* numeric temp, the probe returns such a zone's raw value divided by 1000,
\* whatever the enumeration order.
C5_PreferredZoneWins ==
    (Finished /\ LinuxRan /\ fs_thermal.kind = "dir" /\ PreferredNumericZones # {})
        => \E k \in PreferredNumericZones :
               FloatEq(temp, MilliValue(ThermalZones[k].temp))

ValidZones ==
    {k \in 1..Len(ThermalZones) :
        /\ PurelyNumeric(ThermalZones[k].temp)
        /\ FloatLt(Dec(0, 0), MilliValue(ThermalZones[k].temp))}

FirstOf(S) == CHOOSE k \in S : \A j \in S : k <= j

\* C6: when every thermal zone is of a non-preferred type, the result is the
\* raw value divided by 1000 of the first zone in enumeration order whose temp
\* is purely numeric and strictly positive.
C6_FirstValidZone ==
    ( /\ Finished /\ LinuxRan /\ fs_thermal.kind = "dir"
      /\ \A k \in 1..Len(ThermalZones) :
             TypeKnown(ThermalZones[k]) /\ ~PreferredType(ThermalZones[k])
      /\ ValidZones # {} )
        => FloatEq(temp, MilliValue(ThermalZones[FirstOf(ValidZones)].temp))

\* the hwmon scan was started: thermal zones existed and gave no value
HwmonScanned ==
    /\ LinuxRan
    /\ fs_thermal.kind # "missing"
    /\ source \notin {"preferred_zone", "candidate"}
    /\ fs_hwmon.kind = "dir"

\* positions <<device, file>> of the temp*_input readings inside the window
SaneReadings ==
    {p \in (1..Len(fs_hwmon.devices)) \X (1..(MaxFiles + 1)) :
        /\ p[2] <= Len(fs_hwmon.devices[p[1]].files)
        /\ LET e == fs_hwmon.devices[p[1]].files[p[2]]
           IN  /\ startswith(e.name, S_temp) /\ endswith(e.name, S_input)
               /\ PurelyNumeric(e.file)
               /\ FloatLt(Dec(10, 0), MilliValue(e.file))
               /\ FloatLt(MilliValue(e.file), Dec(150, 0))}

ScanBefore(p, q) == p[1] < q[1] \/ (p[1] = q[1] /\ p[2] <= q[2])

FirstSaneReading == CHOOSE p \in SaneReadings : \A q \in SaneReadings : ScanBefore(p, q)

\* C7: the hwmon fallback returns the first temp*_input reading in scan order
\* whose value divided by 1000 lies strictly between 10 and 150; readings of
\* 10000 and 150000 are rejected and the scan continues.
C7_HwmonFirstInWindow ==
    (Finished /\ HwmonScanned) =>
        IF SaneReadings = {} THEN temp = None
        ELSE LET p == FirstSaneReading
             IN  FloatEq(temp, MilliValue(fs_hwmon.devices[p[1]].files[p[2]].file))

(***************************************************************************)
(* Windows/WSL probe: what a strategy's output says, read off raw without  *)
(* running the classification.                                             *)
(***************************************************************************)
AfterStrategy(k) == Len(calls) > 0 /\ LastCall.kind = "strategy" /\ LastCall.idx = k

\* one or more decimal digits
PlainInt(t) == t # <<>> /\ \A k \in 1..Len(t) : t[k] \in DigitChars

\* the value of a plain integer; anything of ten digits or more counts as 10^9
IntOf(t) == IF Len(StripZeros(t)) > 9 THEN 1000000000 ELSE ParseNat(t)

\* C8: a plain-integer output v of query strategy 1, 2 or 3 gives the reading
\* v/10 - 273.15 when 2500 < v < 4000 (3032 gives 30.05), v - 273.15 when
\* 200 < v < 400 (310 gives 36.85) and v unchanged when 0 < v < 150.
C8_UnitWindows ==
    \A k \in 1..3 :
        (AfterStrategy(k) /\ PlainInt(raw.text)) =>
            LET v == IntOf(raw.text)
            IN  /\ (2500 < v /\ v < 4000) =>
                       Returned /\ FloatEq(temp, Dec(10 * v - 27315, 2))
                /\ (200 < v /\ v < 400) =>
                       Returned /\ FloatEq(temp, Dec(100 * v - 27315, 2))
                /\ (0 < v /\ v < 150) =>
                       Returned /\ FloatEq(temp, Dec(v, 0))
                /\ v = 3032 => temp = Dec(3005, 2)
                /\ v = 310 => temp = Dec(3685, 2)

C8_Witness ==
    /\ AfterStrategy(1)
    /\ raw.text = <<"3", "0", "3", "2">>
    /\ Finished
    /\ source = "strategy"
    /\ temp = Dec(3005, 2)

Rejected(v) ==
    v <= 0 \/ v >= 4000 \/ (150 <= v /\ v <= 200) \/ (400 <= v /\ v <= 2500)

\* a step of the strategy loop
StrategyStep ==
    /\ pc = "win_strategy"
    /\ calls' = Append(calls, [kind |-> "strategy", exe |-> ps_exe, idx |-> i + 1])

RejectedOutput == PlainInt(raw'.text) /\ Rejected(IntOf(raw'.text))

AfterLast(k) == IF k < Len(commands) THEN "win_strategy" ELSE "win_wmic"

\* C9 as stated: a raw integer <= 0, >= 4000, in [150, 200] or in [400, 2500]
\* yields no reading from the strategy that printed it, whichever strategy it
\* is, and the next one in order is tried.
C9_GapRejectedEveryStrategy ==
    [][(StrategyStep /\ RejectedOutput) =>
           (temp' = None /\ i' = i + 1 /\ pc' = AfterLast(i + 1))]_vars

\* C9 amended: from strategy 1, 2 or 3 such a value yields no reading and the
\* next strategy is tried; from the open-hardware-monitor strategy it is
\* returned as Celsius as it stands.
C9_GapRejectedThermalStrategies ==
    [][(StrategyStep /\ RejectedOutput) =>
           IF i + 1 <= 3
           THEN temp' = None /\ i' = i + 1 /\ pc' = "win_strategy"
           ELSE /\ pc' = "report"
                /\ temp' = (IF Len(StripZeros(raw'.text)) > FloatMaxDigits THEN Inf
                            ELSE Dec(IntOf(raw'.text), 0))]_vars

C9_Witness ==
    /\ AfterStrategy(2)
    /\ raw.text = <<"2", "5", "0", "0">>
    /\ pc = "win_strategy"
    /\ i = 2
    /\ temp = None

\* digits with at most one decimal point, and at least one digit
PlainNumber(t) ==
    /\ \A k \in 1..Len(t) : t[k] \in DigitChars \cup {"."}
    /\ Cardinality({k \in 1..Len(t) : t[k] = "."}) <= 1
    /\ \E k \in 1..Len(t) : t[k] \in DigitChars

HasPoint(t) == \E k \in 1..Len(t) : t[k] = "."

\* the number a plain number denotes
NumberValue(t) ==
    LET whole == SelectSeq(t, LAMBDA c : c # ".")
        frac  == IF HasPoint(t)
                 THEN Len(t) - (CHOOSE k \in 1..Len(t) : t[k] = ".")
                 ELSE 0
    IN  IF Len(StripZeros(whole)) - frac > FloatMaxDigits THEN Inf
        ELSE Dec(ParseNat(whole), frac)

\* C10: when the open-hardware-monitor strategy (the fourth) is reached and
\* prints a plain number with at most one decimal point, the probe returns
\* that number unconverted; only that strategy returns directly, and a decimal
\* output of strategy 1, 2 or 3 yields no reading.
C10_OhmDirect ==
    /\ (AfterStrategy(4) /\ PlainNumber(raw.text)) =>
           /\ Returned
           /\ source = "ohm"
           /\ FloatEq(temp, NumberValue(raw.text))
    /\ \A k \in 1..3 :
           (AfterStrategy(k) /\ PlainNumber(raw.text) /\ HasPoint(raw.text)) =>
               ~Returned /\ temp = None
    /\ source = "ohm" => AfterStrategy(4)

C10_Witness ==
    /\ AfterStrategy(4)
    /\ raw.text = <<"5", "5", ".", "5">>
    /\ Finished
    /\ temp = Dec(555, 1)
    /\ stdout = << <<"5", "5", ".", "5">> >>

(***************************************************************************)
(* Windows/WSL probe: the order of its child processes, read off calls.    *)
(***************************************************************************)
WindowsRan == probes = <<"get_windows_temp">>

StrategyCalls == SelectSeq(calls, LAMBDA c : c.kind = "strategy")

WmicCalls == SelectSeq(calls, LAMBDA c : c.kind = "wmic")

\* the child process a step spawns
Spawned == calls'[Len(calls')]

Spawns(kind) == Len(calls') = Len(calls) + 1 /\ Spawned.kind = kind

\* C11: the query strategies are invoked in the order 1, 2, 3, 4, each at
\* most once; a strategy or the wmic fallback is invoked only while no earlier
\* strategy has yielded a value, the wmic fallback only after all four
\* strategies were invoked; the strategy that yields a value ends the probe
\* with that value and nothing is invoked after it.
C11_StrategyOrder ==
    /\ [](/\ Len(StrategyCalls) <= Len(commands)
          /\ \A k \in 1..Len(StrategyCalls) : StrategyCalls[k].idx = k
          /\ Len(WmicCalls) <= 1
          /\ (Returned /\ Len(calls) > 0 /\ LastCall.kind = "strategy")
                 => (temp # None /\ source \in {"strategy", "ohm"}))
    /\ [][/\ Spawns("strategy") =>
                /\ temp = None /\ ~Returned
                /\ WmicCalls = <<>>
                /\ Spawned.idx = Len(StrategyCalls) + 1
                /\ temp' # None => pc' = "report"
                /\ temp' = None => pc' = AfterLast(Spawned.idx)
          /\ Spawns("wmic") =>
                /\ temp = None /\ ~Returned
                /\ Len(StrategyCalls) = Len(commands)
                /\ pc' = "report"
          /\ Returned => calls' = calls]_vars

C11_Witness ==
    /\ Finished
    /\ is_wsl_mode
    /\ Len(StrategyCalls) = 3
    /\ WmicCalls = <<>>
    /\ source = "strategy"
    /\ raw.text = <<"3", "1", "0">>

\* a strategy's output that is no reading: the child process failed, or
\* printed nothing or something that is no plain number
StrategyFailure == ~raw'.some \/ raw'.text = <<>> \/ ~PlainNumber(raw'.text)

\* C12: a strategy that fails (no output from the child process, empty or
\* non-numeric output, an exception while converting) does not end the probe:
\* the next strategy, or the wmic fallback after the fourth, is tried; no
\* failure leaves get_windows_temp as an exception, and a Windows/WSL run that
\* got no reading from a strategy has tried all four and then wmic.
C12_StrategyErrorIsolation ==
    /\ [](WindowsRan => pc # "crashed")
    /\ []((WindowsRan /\ Returned /\ source \notin {"strategy", "ohm"}) =>
              (Len(StrategyCalls) = Len(commands) /\ LastCall.kind = "wmic"))
    /\ [][(StrategyStep /\ StrategyFailure) =>
             (temp' = None /\ i' = i + 1 /\ pc' = AfterLast(i + 1))]_vars

C12_Witness ==
    /\ AfterStrategy(4)
    /\ raw.text = <<"sup2">>
    /\ pc = "win_wmic"
    /\ temp = None

\* the first candidate that resolves, from what the search-path probe and
\* os.path.exists said
FirstResolving ==
    IF path_probe = "zero" THEN "powershell.exe"
    ELSE IF "/mnt/c/Windows/System32/WindowsPowerShell/v1.0/powershell.exe" \in fs_paths
    THEN "/mnt/c/Windows/System32/WindowsPowerShell/v1.0/powershell.exe"
    ELSE IF "/mnt/c/Windows/System32/powershell.exe" \in fs_paths
    THEN "/mnt/c/Windows/System32/powershell.exe"
    ELSE "powershell.exe"

\* C15: in WSL mode the interpreter is the first of the three candidates that
\* resolves, the bare name if none does; outside WSL mode it is the bare name.
\* It is resolved before the first strategy, never changes afterwards, and
\* every strategy invocation of the run uses it.
C15_InterpreterResolution ==
    /\ []((WindowsRan /\ pc # "win_resolve") =>
              /\ ps_exe = (IF is_wsl_mode THEN FirstResolving ELSE "powershell.exe")
              /\ \A k \in 1..Len(StrategyCalls) : StrategyCalls[k].exe = ps_exe)
    /\ [](pc = "win_resolve" => StrategyCalls = <<>>)
    /\ [][pc # "win_resolve" => ps_exe' = ps_exe]_vars

C15_Witness ==
    /\ Finished
    /\ is_wsl_mode
    /\ path_probe = "nonzero"
    /\ fs_paths = {"/mnt/c/Windows/System32/powershell.exe"}
    /\ Len(StrategyCalls) = 4
    /\ \A k \in 1..4 : StrategyCalls[k].exe = "/mnt/c/Windows/System32/powershell.exe"

(***************************************************************************)
(* Linux probe: the order of its sources.                                  *)
(***************************************************************************)
\* C13: when the probe did not return a preferred zone's value and a fallback
\* candidate was recorded, the probe returns that candidate, whatever
\* filesystem errors the traversal met after recording it.
C13_CandidateSurvivesErrors ==
    (Finished /\ LinuxRan /\ source # "preferred_zone" /\ candidate # None)
        => FloatEq(temp, candidate)

HwmonPcs == {"hwmon_base", "hwmon_dev", "hwmon_file"}

\* C14: a missing thermal-zone directory ends the probe with absent at once,
\* with no exception and no hwmon scan; otherwise the hwmon scan starts
\* exactly when thermal-zone enumeration gave no value, that is with no
\* preferred zone with a numeric temp and no fallback candidate, and never
\* after a thermal-zone value was chosen.
C14_HwmonOnlyWithoutThermalValue ==
    [][/\ (pc = "linux_base" /\ fs_thermal.kind = "missing") =>
             (pc' = "report" /\ temp' = None)
       /\ (pc = "linux_base" /\ fs_thermal.kind # "missing") => pc' = "linux_list"
       /\ (pc \in {"linux_list", "linux_zone"} /\ pc' = "report") => temp' # None
       /\ (pc \notin HwmonPcs /\ pc' \in HwmonPcs) =>
             /\ pc \in {"linux_list", "linux_zone"}
             /\ temp = None
             /\ candidate = None
             /\ PreferredNumericZones = {}
       /\ pc' = "crashed" => ~LinuxRan]_vars

(***************************************************************************)
(* wmic fallback: what the tool's text says, read off raw.                 *)
(***************************************************************************)
AfterWmic == Len(calls) > 0 /\ LastCall.kind = "wmic"

\* positions where a run of four or more digits starts
LongRunStarts(t) ==
    {p \in 1..(Len(t) - 3) :
        /\ \A j \in p..(p + 3) : t[j] \in DigitChars
        /\ p = 1 \/ t[p - 1] \notin DigitChars}

\* the first such run, to its last digit
FirstLongRun(t) ==
    LET p == FirstOf(LongRunStarts(t))
        e == CHOOSE k \in p..Len(t) :
                 /\ \A j \in p..k : t[j] \in DigitChars
                 /\ k = Len(t) \/ t[k + 1] \notin DigitChars
    IN  SubSeq(t, p, e)

\* C16: the wmic fallback looks at the first run of four or more digits of
\* the tool's text only; a value d of that run with 2500 < d < 4000 gives
\* d/10 - 273.15, and no such run, or a first run outside the window even
\* with a later run inside it, gives absent.
C16_WmicFirstLongRun ==
    AfterWmic =>
        /\ Returned
        /\ IF raw.some /\ LongRunStarts(raw.text) # {}
              /\ 2500 < IntOf(FirstLongRun(raw.text))
              /\ IntOf(FirstLongRun(raw.text)) < 4000
           THEN /\ source = "wmic"
                /\ FloatEq(temp, Dec(10 * IntOf(FirstLongRun(raw.text)) - 27315, 2))
           ELSE temp = None

C16_Witness ==
    /\ Finished
    /\ AfterWmic
    /\ raw.text = <<"1", "2", " ", "3", "0", "3", "2">>
    /\ temp = Dec(3005, 2)
    /\ source = "wmic"

\* C17: a reading the Windows/WSL probe returns from strategy 1, 2 or 3 or
\* from wmic lies strictly between -73.15 and 150: a deci-Kelvin result in
\* (-23.15, 126.85), a Kelvin result in (-73.15, 126.85), a Celsius result in
\* (0, 150); a reading outside (-73.15, 150) came from the fourth strategy.
C17_WindowsReadingRange ==
    (WindowsRan /\ temp # None) =>
        /\ source \in {"strategy", "wmic", "ohm"}
        /\ source \in {"strategy", "wmic"} =>
               /\ Between(Dec(-7315, 2), temp, Dec(150, 0))
               /\ accepted_by = "(2500,4000)" => Between(Dec(-2315, 2), temp, Dec(12685, 2))
               /\ accepted_by = "(200,400)" => Between(Dec(-7315, 2), temp, Dec(12685, 2))
               /\ accepted_by = "(0,150)" => Between(Dec(0, 0), temp, Dec(150, 0))
               /\ source = "strategy" => (\E k \in 1..3 : AfterStrategy(k))
               /\ source = "wmic" => accepted_by = "(2500,4000)"
        /\ ~Between(Dec(-7315, 2), temp, Dec(150, 0)) =>
               (source = "ohm" /\ AfterStrategy(4))

C17_Witness ==
    /\ Finished
    /\ WindowsRan
    /\ source = "strategy"
    /\ raw.text = <<"2", "0", "1">>
    /\ temp = Dec(-7215, 2)

(***************************************************************************)
(* Termination.                                                            *)
(***************************************************************************)
CallsOf(kind) == SelectSeq(calls, LAMBDA c : c.kind = kind)

\* C18: every run eventually prints its output line and ends; the
\* Windows/WSL probe spawns at most six child processes (at most one
\* search-path probe, four query strategies, one wmic call) and invokes no
\* strategy twice.
C18_TerminatesWithOutput ==
    /\ <>(Finished /\ Len(stdout) = 1)
    /\ [](WindowsRan =>
            /\ Len(calls) <= 6
            /\ Len(CallsOf("which")) <= 1
            /\ Len(CallsOf("strategy")) <= 4
            /\ Len(CallsOf("wmic")) <= 1
            /\ \A j, k \in 1..Len(StrategyCalls) :
                   StrategyCalls[j].idx = StrategyCalls[k].idx => j = k)

====
